---- MODULE Spec2Model ----
(***************************************************************************)
(* The network core of the client: class Protocol (the packet channel, the *)
(* outbound queue, handler dispatch and the clock synchronizer).           *)
(*                                                                         *)
(* The fields of the Protocol instance, its WebSocket and the Timer module *)
(* are the variables.  Every method of Protocol is an operator from a      *)
(* world record (all fields) to the world record after the call, so that a *)
(* method that calls another one (startGame -> send, onMessage -> handler) *)
(* is the composition the code performs.  An action is one task of the     *)
(* single-threaded event loop: one public call, one transport event or one *)
(* timer callback, run to completion.                                      *)
(***************************************************************************)
EXTENDS Integers, Sequences, FiniteSets, TLC

VARIABLES
    readyState,       \* socket.readyState
    wire,             \* the packets handed to socket.send while it was OPEN, in order
    packetQueue,      \* Protocol.packetQueue
    eventHandler,     \* Protocol.eventHandler (the disconnect callback slot)
    handlers,         \* Protocol.handlers: packet type -> sequence of handlers
    syncTimer,        \* Protocol.syncTimer
    serverTimeDelta,  \* Protocol.serverTimeDelta
    roundTripTime,    \* Protocol.roundTripTime
    simulation,       \* Protocol.simulation (FALSE is null)
    timers,           \* Timer: the active intervals, {[id, cb]}
    nextHandle,       \* Timer: the next interval handle
    loading,          \* Application: loadingView_.load was called and has not completed
    games,            \* Application: the number of Game instances constructed
    history,          \* observation: every packet passed to send, in call order
    eventLog,         \* observation: each invocation of the disconnect callback
    calls,            \* observation: each invocation of an external packet handler
    thrown,           \* observation: the last listener or query ended by an uncaught exception
    sentBeforeOpen,   \* observation: Len(history) when the open event fired, -1 before
    startGames,       \* observation: the number of startGame calls
    lastReply,        \* observation: <<t0, serverTime, Date.now()>> of the last clock-sync reply
    query,            \* observation: the last elapsed-time query
    registered,       \* observation: each registerPacketHandler call, <<type, cb>>, in call order
    lastFrame,        \* observation: the last frame the dispatcher was watched on
    overwrote,        \* observation: the last clock-sync reply replaced a different estimate
    stampTime,        \* observation: simulation.getTimeMillis() at the last stamped send
    registry,         \* Simulation: the live entities, {[kind, id, payload, serial]}
    instructions,     \* Simulation: the creations and removals queued since the last tick
    nextSerial,       \* Simulation: the serial number of the next entity object
    queued,           \* observation: the number of instructions queued so far
    drawables,        \* Painter: the serials of the registered bullet sprites
    notified,         \* observation: the lifecycle notifications, in order
    lastBatch,        \* observation: the instructions the last tick processed
    lastDrawn,        \* observation: the serials of the bullets the last frame drew
    popup,            \* a goog.ui.ModalPopup, its window listeners and observers
    jukebox,          \* a Jukebox and its audio element
    resources,        \* a ResourceManager and the loads in flight
    sorting           \* a call of Array.prototype.stableSort

vars == <<readyState, wire, packetQueue, eventHandler, handlers, syncTimer,
          serverTimeDelta, roundTripTime, simulation, timers, nextHandle,
          loading, games,
          history, eventLog, calls, thrown, sentBeforeOpen, startGames,
          lastReply, query, registered, lastFrame, overwrote, stampTime,
          registry, instructions, nextSerial, queued, drawables, notified,
          lastBatch, lastDrawn, popup, jukebox, resources, sorting>>

\* the user interface objects beside the game
uiVars == <<popup, jukebox, resources, sorting>>

\* the variables of the simulation and the painter
simVars == <<registry, instructions, nextSerial, queued, drawables,
             notified, lastBatch, lastDrawn>>

-----------------------------------------------------------------------------
(* Numbers.  JavaScript numbers hold every integer below 2^53 exactly; the  *)
(* clock code works on values up to 2^33 and on Date.now() (about 2^41).    *)
(* A number n is the pair <<hi, lo>> with n = hi * Limb + lo, 0 <= lo <     *)
(* Limb, which keeps the 32-bit widths of the code exact.                   *)

Limb == 2^16

Num(hi, lo) == <<hi + (lo \div Limb), lo % Limb>>

Small(n) == Num(0, n)

Add(a, b) == Num(a[1] + b[1], a[2] + b[2])

Sub(a, b) == Num(a[1] - b[1], a[2] - b[2])

Times(a, k) == Num(a[1] * k, a[2] * k)

Less(a, b) == a[1] < b[1] \/ (a[1] = b[1] /\ a[2] < b[2])

Leq(a, b) == a = b \/ Less(a, b)

Zero == Small(0)

\* 0x100000000
Two32 == <<Limb, 0>>

MinInt32 == <<-(Limb \div 2), 0>>

MaxInt32 == <<(Limb \div 2) - 1, Limb - 1>>

\* n modulo 2^32, in [0, 2^32)
Mod32(n) == <<n[1] % Limb, n[2]>>

\* num | 0: ToInt32 of an integer, the low 32 bits read as a signed value
asInt32(num) == <<((num[1] + (Limb \div 2)) % Limb) - (Limb \div 2), num[2]>>

\* ceil(3 * r / 5) for r >= 0
CeilThreeFifths(r) ==
    LET m == Add(Times(r, 3), Small(4))
    IN  <<m[1] \div 5, (((m[1] % 5) * Limb) + m[2]) \div 5>>

\* ceil(r / 2) for r >= 0
CeilHalf(r) ==
    LET m == Add(r, Small(1))
    IN  <<m[1] \div 2, (((m[1] % 2) * Limb) + m[2]) \div 2>>

\* (variant of floorWeighted with the conventional weight 0.5)
floorWeightedHalf(x, rtt) == Sub(x, CeilHalf(rtt))

\* Math.floor(x - 0.6 * rtt), x an integer and 0 <= rtt < 2^32: the double
\* product 0.6 * rtt is an integer exactly when 5 divides rtt, and is
\* otherwise at least 0.2 away from one, so the floor is x - ceil(3 rtt / 5).
floorWeighted(x, rtt) == Sub(x, CeilThreeFifths(rtt))

-----------------------------------------------------------------------------
(* Packet types *)

C2S_LOGIN == 1
C2S_START_GAME == 2
C2S_POSITION == 3
C2S_CLOCK_SYNC == 4
C2S_CHAT_MESSAGE == 6

C2S_FLAG_CAPTURED == 11

S2C_LOGIN_REPLY == 1
S2C_PLAYER_ENTERED == 2

S2C_PLAYER_LEFT == 3

S2C_CLOCK_SYNC_REPLY == 5

S2C_PLAYER_DIED == 6

S2C_CHAT_MESSAGE == 7

S2C_SCORE_UPDATE == 9

NOOP == "noop"

-----------------------------------------------------------------------------
(* Bounds and input samples *)

MaxSends == 3

MaxStartGames == 2

\* registerPacketHandler calls after the constructor's own
MaxRegistrations == 2

\* invocations of external packet handlers
MaxCalls == 2

\* creations and removals queued in one run
MaxInstructions == 3

\* Date.now() is about 400 * 2^32 in 2024
DateEpoch == 400 * Limb

Date(low) == Add(<<DateEpoch, 0>>, Mod32(low))

\* echoed client times, int32
T0Samples ==
    {Small(1000), Small(0), Small(-1), MaxInt32, Sub(MaxInt32, Small(50))}

\* server times, int32
ServerSamples ==
    {Small(5000), Small(0), Small(-7), MinInt32, MaxInt32}

\* Date.now() values; their low 32 bits, signed, are 1200, 1000, -1,
\* 2^31 - 1 and -2^31 + 49
NowSamples ==
    {Date(Small(1200)), Date(Small(1000)), Date(Small(-1)),
     Date(MaxInt32), Date(Add(MinInt32, Small(49)))}

\* simulation.getTimeMillis() values; low 32 bits, signed: 1000, 2^31 - 1,
\* -2^31, -2, -1
SimTimeSamples ==
    {Date(Small(1000)), Date(MaxInt32), Date(MinInt32),
     Date(Small(-2)), Date(Small(-1))}

\* the few clock values the channel specification sends and receives
FewNows == {Date(Small(1200))}

FewT0 == {Small(1000)}

FewServer == {Small(5000)}

FewSimTimes == {Date(Small(1000))}

Ships == {0}

Callbacks == {"onConnectionLost"}

\* entity kinds, identities and creation payloads
Kinds == {"player", "projectile"}

Ids == {7, 99}

Payloads == {"a", "b"}

\* the packet handlers of Application and Game
PacketHandlers == {"startGame_", "onPlayerEntered_"}

\* the packet types they are registered for
PacketTypes == {S2C_LOGIN_REPLY, S2C_PLAYER_ENTERED}

-----------------------------------------------------------------------------
(* The world record *)

World ==
    [readyState |-> readyState, wire |-> wire, packetQueue |-> packetQueue,
     eventHandler |-> eventHandler, handlers |-> handlers,
     syncTimer |-> syncTimer, serverTimeDelta |-> serverTimeDelta,
     roundTripTime |-> roundTripTime, simulation |-> simulation,
     timers |-> timers, nextHandle |-> nextHandle,
     loading |-> loading, games |-> games,
     history |-> history, eventLog |-> eventLog, calls |-> calls,
     thrown |-> thrown]

Commit(w) ==
    /\ readyState' = w.readyState
    /\ wire' = w.wire
    /\ packetQueue' = w.packetQueue
    /\ eventHandler' = w.eventHandler
    /\ handlers' = w.handlers
    /\ syncTimer' = w.syncTimer
    /\ serverTimeDelta' = w.serverTimeDelta
    /\ roundTripTime' = w.roundTripTime
    /\ simulation' = w.simulation
    /\ timers' = w.timers
    /\ nextHandle' = w.nextHandle
    /\ loading' = w.loading
    /\ games' = w.games
    /\ history' = w.history
    /\ eventLog' = w.eventLog
    /\ calls' = w.calls
    /\ thrown' = w.thrown
    /\ UNCHANGED <<simVars, uiVars>>

-----------------------------------------------------------------------------
(* The platform: WebSocket, JSON, Timer *)

\* JSON.stringify(data): the text of a value
Stringify(data) == [json |-> data]

\* a text that is not JSON
Malformed == [garbage |-> "{"]

\* the values JSON.parse returns: an array, null, a number, an object
JsonArray(items) == [type |-> "array", items |-> items]

JsonNull == [type |-> "null"]

JsonNumber(n) == [type |-> "number", value |-> n]

JsonObject(fields) == [type |-> "object", fields |-> fields]

\* the JSON text of a value that is not an array
Encode(value) == [value |-> value]

\* JSON.parse(text) does not throw
Parses(text) == DOMAIN text \cap {"json", "value"} # {}

\* JSON.parse(text)
Parse(text) ==
    IF "json" \in DOMAIN text THEN JsonArray(text.json) ELSE text.value

\* obj[0] for an obj that is not null: <<>> is undefined, <<v>> the value v
element0(obj) ==
    CASE obj.type = "array" ->
             IF obj.items = <<>> THEN <<>> ELSE <<obj.items[1]>>
      [] obj.type = "object" ->
             IF "0" \in DOMAIN obj.fields THEN <<obj.fields["0"]>> ELSE <<>>
      [] OTHER -> <<>>

\* a listener or a call returns
returned(w) == [w EXCEPT !.thrown = FALSE]

\* a listener ends by an uncaught TypeError
threw(w) == [w EXCEPT !.thrown = TRUE]

\* socket.send(packet): transmits on an OPEN socket; a CLOSING or CLOSED
\* socket discards the data
socketSend(w, packet) ==
    IF w.readyState = "OPEN" THEN [w EXCEPT !.wire = Append(@, packet)] ELSE w

\* Timer.setInterval(cb, period): the handle it returns is w.nextHandle
setInterval(w, cb) ==
    [w EXCEPT !.timers = @ \cup {[id |-> w.nextHandle, cb |-> cb]},
              !.nextHandle = @ + 1]

\* Timer.clearInterval(handle)
clearInterval(w, handle) ==
    [w EXCEPT !.timers = {t \in @ : t.id # handle}]

-----------------------------------------------------------------------------
(* Protocol *)

\* (variant of send that always queues)
sendAlwaysQueue(w, data) ==
    [w EXCEPT !.packetQueue = Append(@, Stringify(data)),
              !.history = Append(@, Stringify(data))]

\* Protocol.send
send(w, data) ==
    LET packet == Stringify(data)
        seen == [w EXCEPT !.history = Append(@, packet)]
    IN  IF w.readyState # "OPEN"
        THEN [seen EXCEPT !.packetQueue = Append(@, packet)]
        ELSE socketSend(seen, packet)

RECURSIVE sendEach(_, _)
\* packets.forEach((packet) => this.socket.send(packet))
sendEach(w, packets) ==
    IF packets = <<>> THEN w
    ELSE sendEach(socketSend(w, Head(packets)), Tail(packets))

Reverse(s) == [i \in 1..Len(s) |-> s[Len(s) + 1 - i]]

\* (variant of onOpen that drains the newest packet first)
onOpenLifo(w) ==
    [sendEach(w, Reverse(w.packetQueue)) EXCEPT !.packetQueue = <<>>]

\* (variant of onOpen that keeps the queue after draining it)
onOpenKeep(w) == sendEach(w, w.packetQueue)

\* Protocol.onOpen
onOpen(w) ==
    [sendEach(w, w.packetQueue) EXCEPT !.packetQueue = <<>>]

\* (variant of onClose that keeps the queue)
onCloseKeepQueue(w) ==
    LET cleared == clearInterval(w, w.syncTimer)
    IN  [cleared EXCEPT !.syncTimer = 0,
                        !.eventLog = Append(@, w.eventHandler)]

\* (variant of onClose that also forgets the clock estimate)
onCloseResetClock(w) ==
    LET cleared == clearInterval(w, w.syncTimer)
    IN  [cleared EXCEPT !.syncTimer = 0,
                        !.packetQueue = <<>>,
                        !.serverTimeDelta = Zero,
                        !.roundTripTime = Zero,
                        !.eventLog = Append(@, w.eventHandler)]

\* (variant of onClose that connects a new socket)
onCloseReconnect(w) ==
    LET cleared == clearInterval(w, w.syncTimer)
    IN  [cleared EXCEPT !.syncTimer = 0,
                        !.packetQueue = <<>>,
                        !.readyState = "CONNECTING",
                        !.eventLog = Append(@, w.eventHandler)]

\* Protocol.onClose
onClose(w) ==
    LET cleared == clearInterval(w, w.syncTimer)
    IN  [cleared EXCEPT !.syncTimer = 0,
                        !.packetQueue = <<>>,
                        !.eventLog = Append(@, w.eventHandler)]

\* (variant of registerPacketHandler that puts the new handler first)
registerPacketHandlerFirst(w, packetType, cb) ==
    LET known == IF packetType \in DOMAIN w.handlers
                 THEN w.handlers[packetType] ELSE <<>>
    IN  [w EXCEPT !.handlers = (packetType :> (<<cb>> \o known)) @@ @]

\* Protocol.registerPacketHandler
registerPacketHandler(w, packetType, cb) ==
    LET ensured == IF packetType \in DOMAIN w.handlers
                   THEN w.handlers
                   ELSE (packetType :> <<>>) @@ w.handlers
    IN  [w EXCEPT !.handlers = [ensured EXCEPT ![packetType] = Append(@, cb)]]

\* (variant of registerEventHandler that reports a close it missed)
registerEventHandlerReplay(w, cb) ==
    IF w.readyState = "CLOSED"
    THEN [w EXCEPT !.eventHandler = cb, !.eventLog = Append(@, cb)]
    ELSE [w EXCEPT !.eventHandler = cb]

\* Protocol.registerEventHandler
registerEventHandler(w, cb) == [w EXCEPT !.eventHandler = cb]

\* Protocol.login
login(w, loginData) == send(w, <<C2S_LOGIN, loginData>>)

\* (variant of startGame that probes the clock before it announces the game)
startGameProbeFirst(w, ship, now) ==
    LET attached == [w EXCEPT !.simulation = TRUE]
        probed == send(attached, <<C2S_CLOCK_SYNC, asInt32(now)>>)
        sent == send(probed, <<C2S_START_GAME, ship, asInt32(now)>>)
    IN  [setInterval(sent, "syncClocks") EXCEPT !.syncTimer = sent.nextHandle]

\* Protocol.startGame; now is Date.now()
startGame(w, ship, now) ==
    LET attached == [w EXCEPT !.simulation = TRUE]
        sent == send(attached, <<C2S_START_GAME, ship, asInt32(now)>>)
    IN  [setInterval(sent, "syncClocks") EXCEPT !.syncTimer = sent.nextHandle]

\* (variant of remoteTime that returns the local time)
remoteTimeLocal(w, simTime) ==
    IF w.simulation THEN asInt32(simTime) ELSE Zero

\* Protocol.remoteTime; simTime is simulation.getTimeMillis()
remoteTime(w, simTime) ==
    IF w.simulation THEN asInt32(Add(simTime, w.serverTimeDelta)) ELSE Zero

\* Protocol.getMillisSinceServerTime; simTime is simulation.getTimeMillis()
getMillisSinceServerTime(w, timestamp, simTime) ==
    IF ~w.simulation THEN Zero
    ELSE LET d0 == Sub(timestamp, w.serverTimeDelta)
             d1 == IF Less(d0, Zero) THEN Add(d0, Two32) ELSE d0
             d2 == Sub(asInt32(simTime), d1)
         IN  IF Less(d2, Zero) THEN Add(d2, Two32) ELSE d2

\* Protocol.sendPosition
sendPosition(w, simTime, motion) ==
    send(w, <<C2S_POSITION, remoteTime(w, simTime), motion>>)

\* Protocol.sendFlagCaptured
sendFlagCaptured(w, simTime, id) ==
    send(w, <<C2S_FLAG_CAPTURED, remoteTime(w, simTime), id>>)

\* Protocol.sendChat
sendChat(w, message) == send(w, <<C2S_CHAT_MESSAGE, message>>)

\* Protocol.syncClocks; now is Date.now()
syncClocks(w, now) == send(w, <<C2S_CLOCK_SYNC, asInt32(now)>>)

\* (variant of onClockSyncReply that leaves a negative difference as it is)
onClockSyncReplyRaw(w, packet, now) ==
    LET rtt == Sub(asInt32(now), packet[1])
        delta == floorWeighted(Sub(packet[2], packet[1]), rtt)
    IN  [w EXCEPT !.roundTripTime = rtt,
                  !.serverTimeDelta =
                      IF Less(delta, Zero) THEN Add(delta, Two32) ELSE delta]

\* (variant of onClockSyncReply that rejects a reply slower than the last)
onClockSyncReplyBest(w, packet, now) ==
    LET raw == Sub(asInt32(now), packet[1])
        rtt == IF Less(raw, Zero) THEN Add(raw, Two32) ELSE raw
        delta == floorWeighted(Sub(packet[2], packet[1]), rtt)
    IN  IF w.roundTripTime # Zero /\ Less(w.roundTripTime, rtt) THEN w
        ELSE [w EXCEPT !.roundTripTime = rtt,
                       !.serverTimeDelta =
                           IF Less(delta, Zero) THEN Add(delta, Two32)
                           ELSE delta]

\* Protocol.onClockSyncReply; now is Date.now()
onClockSyncReply(w, packet, now) ==
    LET clientTime0 == packet[1]
        serverTime == packet[2]
        raw == Sub(asInt32(now), clientTime0)
        rtt == IF Less(raw, Zero) THEN Add(raw, Two32) ELSE raw
        delta == floorWeighted(Sub(serverTime, clientTime0), rtt)
    IN  [w EXCEPT !.roundTripTime = rtt,
                  !.serverTimeDelta =
                      IF Less(delta, Zero) THEN Add(delta, Two32) ELSE delta]

\* (variant of startGame_ that loads the game whatever the reply says)
startGame_Always(w, packet) == [w EXCEPT !.loading = TRUE]

\* Application.startGame_: packet[0] == 1 starts loading the resources,
\* anything else shows an alert
startGame_(w, packet) ==
    IF packet # <<>> /\ ToString(packet[1]) = ToString(1)
    THEN [w EXCEPT !.loading = TRUE]
    ELSE w

\* handler(slicedObj) for one registered handler
invoke(w, handler, payload, now) ==
    LET logged == [w EXCEPT !.calls = Append(@, <<handler, payload>>)]
    IN  CASE handler = "onClockSyncReply" -> onClockSyncReply(w, payload, now)
          [] handler = "startGame_" -> startGame_(logged, payload)
          [] OTHER -> logged

RECURSIVE invokeEach(_, _, _, _)
\* packetHandlers.forEach((handler) => handler(slicedObj))
invokeEach(w, hs, payload, now) ==
    IF hs = <<>> THEN w
    ELSE invokeEach(invoke(w, Head(hs), payload, now), Tail(hs), payload, now)

\* this.handlers.get(type) is not undefined
hasHandlers(w, type) == type # <<>> /\ type[1] \in DOMAIN w.handlers

\* (variant of onMessage whose external handlers get the frame with its type)
onMessageWhole(w, data, now) ==
    IF ~Parses(data) \/ Parse(data).type # "array" THEN returned(w)
    ELSE LET obj == Parse(data)
             done == invokeEach(w, w.handlers[obj.items[1]],
                                Tail(obj.items), now)
         IN  IF hasHandlers(w, element0(obj))
             THEN returned([done EXCEPT !.calls =
                      [i \in DOMAIN @ |->
                          IF i > Len(w.calls) THEN <<@[i][1], obj.items>>
                          ELSE @[i]]])
             ELSE returned(w)

\* (variant of onMessage that treats an unknown type as a lost connection)
onMessageUnknownCloses(w, data, now) ==
    IF ~Parses(data) \/ Parse(data).type # "array" THEN returned(w)
    ELSE LET obj == Parse(data)
         IN  IF hasHandlers(w, element0(obj))
             THEN returned(invokeEach(w, w.handlers[obj.items[1]],
                                      Tail(obj.items), now))
             ELSE returned(onClose(w))

\* Protocol.onMessage; data is event.data.  JSON.parse is inside the try
\* block; obj[0] and obj.slice(1) are outside it
onMessage(w, data, now) ==
    IF ~Parses(data) THEN returned(w)
    ELSE LET obj == Parse(data)
         IN  IF obj.type = "null" THEN threw(w)
             ELSE IF ~hasHandlers(w, element0(obj)) THEN returned(w)
             ELSE IF obj.type # "array" THEN threw(w)
             ELSE returned(invokeEach(w, w.handlers[element0(obj)[1]],
                                      Tail(obj.items), now))

\* Protocol.constructor: the fields' initial values, the socket CONNECTING
\* and initializePacketHandlers
NewProtocol ==
    [readyState |-> "CONNECTING", wire |-> <<>>, packetQueue |-> <<>>,
     eventHandler |-> NOOP,
     handlers |-> (S2C_CLOCK_SYNC_REPLY :> <<"onClockSyncReply">>),
     syncTimer |-> 0, serverTimeDelta |-> Zero, roundTripTime |-> Zero,
     simulation |-> FALSE, timers |-> {}, nextHandle |-> 1,
     loading |-> FALSE, games |-> 0,
     history |-> <<>>, eventLog |-> <<>>, calls |-> <<>>, thrown |-> FALSE]

\* (variant of the Application constructor that does not log in)
NewApplicationSilent ==
    registerPacketHandler(NewProtocol, S2C_LOGIN_REPLY, "startGame_")

\* Application.constructor: new Protocol, the login-reply handler, login
NewApplication ==
    login(registerPacketHandler(NewProtocol, S2C_LOGIN_REPLY, "startGame_"),
          "anonymous")

\* (variant of the Game constructor that leaves out the PLAYER_LEFT handler)
NewGameUnhandled(w, ship, now) ==
    LET r0 == registerEventHandler(w, "onConnectionLost")
        r1 == registerPacketHandler(r0, S2C_PLAYER_ENTERED, "onPlayerEntered_")
        r3 == registerPacketHandler(r1, S2C_PLAYER_DIED, "onPlayerDied_")
        r4 == registerPacketHandler(r3, S2C_CHAT_MESSAGE, "onChatMessage_")
        started == startGame(r4, ship, now)
    IN  [setInterval(started, "heartbeat_") EXCEPT !.games = @ + 1]

\* Game.constructor: the disconnect callback, the four packet handlers,
\* startGame and the heartbeat interval, whose handle is dropped
NewGame(w, ship, now) ==
    LET r0 == registerEventHandler(w, "onConnectionLost")
        r1 == registerPacketHandler(r0, S2C_PLAYER_ENTERED, "onPlayerEntered_")
        r2 == registerPacketHandler(r1, S2C_PLAYER_LEFT, "onPlayerLeft_")
        r3 == registerPacketHandler(r2, S2C_PLAYER_DIED, "onPlayerDied_")
        r4 == registerPacketHandler(r3, S2C_CHAT_MESSAGE, "onChatMessage_")
        started == startGame(r4, ship, now)
    IN  [setInterval(started, "heartbeat_") EXCEPT !.games = @ + 1]

\* Application.onLoadComplete_
onLoadComplete_(w, ship, now) ==
    NewGame([w EXCEPT !.loading = FALSE], ship, now)

-----------------------------------------------------------------------------
(* Simulation and entity registry, and the bullet sprite *)

\* the simulation and the painter as one record
Sim ==
    [registry |-> registry, instructions |-> instructions,
     nextSerial |-> nextSerial, drawables |-> drawables,
     notified |-> notified, lastBatch |-> lastBatch, lastDrawn |-> lastDrawn]

CommitSim(m) ==
    /\ registry' = m.registry
    /\ instructions' = m.instructions
    /\ nextSerial' = m.nextSerial
    /\ drawables' = m.drawables
    /\ notified' = m.notified
    /\ lastBatch' = m.lastBatch
    /\ lastDrawn' = m.lastDrawn

\* the live entities of an identity
Holders(m, kind, id) == {e \in m.registry : e.kind = kind /\ e.id = id}

Creation(kind, id, payload) ==
    [op |-> "create", kind |-> kind, id |-> id, payload |-> payload]

Removal(kind, id) == [op |-> "remove", kind |-> kind, id |-> id]

\* the removal notifications of a set of entities, in serial order
RECURSIVE removedNotices(_)
removedNotices(es) ==
    IF es = {} THEN <<>>
    ELSE LET e == CHOOSE x \in es : \A y \in es : x.serial <= y.serial
         IN  <<<<"removed", e.serial>>>> \o removedNotices(es \ {e})

\* (variant of applyRemove that reports the removal of an unknown identity)
applyRemoveStrict(m, ins) ==
    [m EXCEPT !.notified = @ \o <<<<"removed", 0>>>>,
              !.registry = @ \ Holders(m, ins.kind, ins.id)]

\* a removal: the entity becomes Invalid, its removal is notified, and it
\* leaves the registry; an unknown identity is a no-op
applyRemove(m, ins) ==
    [m EXCEPT !.notified = @ \o removedNotices(Holders(m, ins.kind, ins.id)),
              !.registry = @ \ Holders(m, ins.kind, ins.id)]

\* (variant of applyCreate that keeps the entity already there)
applyCreateBeside(m, ins) ==
    LET entity == [kind |-> ins.kind, id |-> ins.id,
                   payload |-> ins.payload, serial |-> m.nextSerial]
    IN  [m EXCEPT !.notified = Append(@, <<"created", m.nextSerial>>),
                  !.registry = @ \cup {entity},
                  !.nextSerial = @ + 1,
                  !.drawables = IF ins.kind = "projectile"
                                THEN @ \cup {m.nextSerial} ELSE @]

\* a creation: an entity already Live under the identity is replaced; the
\* factory gives a projectile its BulletSprite, whose constructor registers
\* it with the painter
applyCreate(m, ins) ==
    LET gone == applyRemove(m, ins)
        entity == [kind |-> ins.kind, id |-> ins.id,
                   payload |-> ins.payload, serial |-> m.nextSerial]
    IN  [gone EXCEPT !.notified = Append(@, <<"created", m.nextSerial>>),
                     !.registry = @ \cup {entity},
                     !.nextSerial = @ + 1,
                     !.drawables = IF ins.kind = "projectile"
                                   THEN @ \cup {m.nextSerial} ELSE @]

RECURSIVE applyEach(_, _)
\* the instructions applied one after the other
applyEach(m, batch) ==
    IF batch = <<>> THEN m
    ELSE applyEach(IF Head(batch).op = "create"
                   THEN applyCreate(m, Head(batch))
                   ELSE applyRemove(m, Head(batch)),
                   Tail(batch))

\* (variant of tick that applies the creations before the removals)
tickCreationsFirst(m) ==
    LET removals == SelectSeq(m.instructions, LAMBDA ins : ins.op = "remove")
        creations == SelectSeq(m.instructions, LAMBDA ins : ins.op = "create")
    IN  [applyEach(m, creations \o removals)
            EXCEPT !.instructions = <<>>, !.lastBatch = m.instructions]

\* step 3 of the tick: the queued removals are applied, then the queued
\* creations, each in arrival order
tick(m) ==
    LET removals == SelectSeq(m.instructions, LAMBDA ins : ins.op = "remove")
        creations == SelectSeq(m.instructions, LAMBDA ins : ins.op = "create")
    IN  [applyEach(m, removals \o creations)
            EXCEPT !.instructions = <<>>, !.lastBatch = m.instructions]

\* bullet_.isValid() of the bullet with this serial
isValid(m, serial) == \E e \in m.registry : e.serial = serial

\* (variant of render that draws the bullet whatever its validity)
renderAlways(m) == [m EXCEPT !.lastDrawn = m.drawables]

\* one frame: the painter calls BulletSprite.render on every registered
\* sprite; the sprite of an invalid bullet invalidates itself, which
\* unregisters it (onInvalidate_), and draws nothing
render(m) ==
    [m EXCEPT !.lastDrawn = {d \in m.drawables : isValid(m, d)},
              !.drawables = {d \in m.drawables : isValid(m, d)}]

-----------------------------------------------------------------------------
(* Actions: one task of the event loop each *)

NoQuery == [at |-> Zero, later |-> Zero, timestamp |-> Zero, elapsed |-> Zero,
            delta |-> Zero, asked |-> FALSE]

NoFrame == [none |-> TRUE]

NoStamp == <<>>

Observed == <<sentBeforeOpen, startGames, lastReply, query,
              registered, lastFrame, overwrote, stampTime>>

CanSend == Len(history) < MaxSends

\* no popup, no jukebox, no resource and no sort
NoUi ==
    /\ popup = <<>>
    /\ jukebox = <<>>
    /\ resources = <<>>
    /\ sorting = <<>>

\* the variables hold the world w; no entity, no instruction, no sprite
IsWorld(w) ==
    /\ registry = {}
    /\ instructions = <<>>
    /\ nextSerial = 1
    /\ queued = 0
    /\ drawables = {}
    /\ notified = <<>>
    /\ lastBatch = <<>>
    /\ lastDrawn = {}
    /\ readyState = w.readyState
    /\ wire = w.wire
    /\ packetQueue = w.packetQueue
    /\ eventHandler = w.eventHandler
    /\ handlers = w.handlers
    /\ syncTimer = w.syncTimer
    /\ serverTimeDelta = w.serverTimeDelta
    /\ roundTripTime = w.roundTripTime
    /\ simulation = w.simulation
    /\ timers = w.timers
    /\ nextHandle = w.nextHandle
    /\ loading = w.loading
    /\ games = w.games
    /\ history = w.history
    /\ eventLog = w.eventLog
    /\ calls = w.calls
    /\ thrown = w.thrown

\* the variables hold the world w, and nothing else exists
Is(w) == IsWorld(w) /\ NoUi

\* new Protocol(url)
Init ==
    /\ Is(NewProtocol)
    /\ sentBeforeOpen = -1
    /\ startGames = 0
    /\ lastReply = <<>>
    /\ query = NoQuery
    /\ registered = <<>>
    /\ lastFrame = NoFrame
    /\ overwrote = FALSE
    /\ stampTime = NoStamp

\* protocol.login(loginData)
Login ==
    /\ CanSend
    /\ Commit(login(World, "anonymous"))
    /\ UNCHANGED Observed

\* protocol.sendChat(message)
SendChat ==
    /\ CanSend
    /\ Commit(sendChat(World, "hi"))
    /\ UNCHANGED Observed

\* protocol.sendPosition(...) at a simulation time of simTimes
SendPositionAt(simTimes) ==
    /\ CanSend
    /\ \E simTime \in simTimes :
          /\ Commit(sendPosition(World, simTime, "m"))
          /\ stampTime' = simTime
    /\ UNCHANGED <<sentBeforeOpen, startGames, lastReply, query,
                   registered, lastFrame, overwrote>>

SendPosition == SendPositionAt(FewSimTimes)

\* protocol.sendFlagCaptured(id) at a simulation time of simTimes
SendFlagCapturedAt(simTimes) ==
    /\ CanSend
    /\ \E simTime \in simTimes :
          /\ Commit(sendFlagCaptured(World, simTime, 0))
          /\ stampTime' = simTime
    /\ UNCHANGED <<sentBeforeOpen, startGames, lastReply, query,
                   registered, lastFrame, overwrote>>

\* protocol.registerPacketHandler(type, cb)
RegisterPacketHandler(types, cbs) ==
    /\ Len(registered) < MaxRegistrations
    /\ \E type \in types, cb \in cbs :
          /\ Commit(registerPacketHandler(World, type, cb))
          /\ registered' = Append(registered, <<type, cb>>)
    /\ UNCHANGED <<sentBeforeOpen, startGames, lastReply, query,
                   lastFrame, overwrote, stampTime>>

\* Game registers its handler of PLAYER_ENTERED, once
FewRegisterPacketHandler ==
    /\ registered = <<>>
    /\ RegisterPacketHandler({S2C_PLAYER_ENTERED}, {"onPlayerEntered_"})

\* protocol.registerEventHandler(cb)
RegisterEventHandler ==
    /\ \E cb \in Callbacks :
          /\ eventHandler # cb
          /\ Commit(registerEventHandler(World, cb))
    /\ UNCHANGED Observed

\* protocol.startGame(simulation, ship)
StartGame ==
    /\ CanSend
    /\ startGames < MaxStartGames
    /\ \E ship \in Ships, now \in FewNows : Commit(startGame(World, ship, now))
    /\ startGames' = startGames + 1
    /\ UNCHANGED <<sentBeforeOpen, lastReply, query,
                   registered, lastFrame, overwrote, stampTime>>

\* an active interval fires: its callback runs
TimerFire ==
    /\ CanSend
    /\ \E t \in timers, now \in FewNows :
          /\ t.cb = "syncClocks"
          /\ Commit(syncClocks(World, now))
    /\ UNCHANGED Observed

\* the connection is established: readyState becomes OPEN and 'open' fires
SocketOpen ==
    /\ readyState = "CONNECTING"
    /\ Commit(onOpen([World EXCEPT !.readyState = "OPEN"]))
    /\ sentBeforeOpen' = Len(history)
    /\ UNCHANGED <<startGames, lastReply, query,
                   registered, lastFrame, overwrote, stampTime>>

\* the server starts the closing handshake: readyState becomes CLOSING
SocketClosing ==
    /\ readyState = "OPEN"
    /\ Commit([World EXCEPT !.readyState = "CLOSING"])
    /\ UNCHANGED Observed

\* the connection is closed cleanly: readyState becomes CLOSED, 'close' fires
SocketClose ==
    /\ readyState \in {"OPEN", "CLOSING"}
    /\ Commit(onClose([World EXCEPT !.readyState = "CLOSED"]))
    /\ UNCHANGED Observed

\* the connection fails: readyState becomes CLOSED, 'error' fires and then
\* 'close', in the same task
SocketFail ==
    /\ readyState \in {"CONNECTING", "OPEN", "CLOSING"}
    /\ Commit(onClose(onClose([World EXCEPT !.readyState = "CLOSED"])))
    /\ UNCHANGED Observed

IsClockReply(data) ==
    /\ Parses(data)
    /\ Parse(data).type = "array"
    /\ Parse(data).items # <<>>
    /\ Parse(data).items[1] = S2C_CLOCK_SYNC_REPLY

Frames(t0s, serverTimes) ==
    {Stringify(<<S2C_CLOCK_SYNC_REPLY, t0, st>>) : t0 \in t0s, st \in serverTimes}
        \cup {Stringify(<<S2C_LOGIN_REPLY, 0>>), Malformed}

\* the frames the dispatcher is watched on: a login reply, a player entry,
\* a clock-sync reply, a type nobody registers for, an empty array, null, a
\* number, two objects and a text that is not JSON
InboundFrames ==
    {Stringify(<<S2C_LOGIN_REPLY, 1>>),
     Stringify(<<S2C_PLAYER_ENTERED, "name", 0>>),
     Stringify(<<S2C_CLOCK_SYNC_REPLY, Small(1000), Small(5000)>>),
     Stringify(<<S2C_SCORE_UPDATE, 3>>),
     Stringify(<<>>),
     Encode(JsonNull),
     Encode(JsonNumber(7)),
     Encode(JsonObject("a" :> 1)),
     Encode(JsonObject("0" :> S2C_CLOCK_SYNC_REPLY)),
     Malformed}

\* the 'message' listener runs on data at Date.now() = now
Receive(data, now) ==
    /\ Commit(onMessage(World, data, now))
    /\ lastReply' = IF IsClockReply(data)
                    THEN <<Parse(data).items[2], Parse(data).items[3], now>>
                    ELSE lastReply
    /\ query' = IF IsClockReply(data) THEN NoQuery ELSE query
    /\ overwrote' = IF IsClockReply(data)
                    THEN <<roundTripTime, serverTimeDelta>>
                             \notin {<<Zero, Zero>>,
                                     <<roundTripTime', serverTimeDelta'>>}
                    ELSE overwrote
    /\ UNCHANGED <<sentBeforeOpen, startGames, registered, stampTime>>

\* a frame arrives: 'message' fires
Message(t0s, serverTimes, nows) ==
    /\ readyState \in {"OPEN", "CLOSING"}
    /\ \E data \in Frames(t0s, serverTimes), now \in nows : Receive(data, now)
    /\ UNCHANGED lastFrame

\* a frame arrives and the dispatcher is watched: 'message' fires
Inbound ==
    /\ readyState \in {"OPEN", "CLOSING"}
    /\ \E data \in InboundFrames, now \in FewNows :
          /\ Len(onMessage(World, data, now).calls) <= MaxCalls
          /\ Receive(data, now)
          /\ lastFrame' = data

\* the frames the application is run on: a login reply that succeeds, one
\* that fails, a clock-sync reply, a player entry and a player departure
AppFrames ==
    {Stringify(<<S2C_LOGIN_REPLY, 1>>),
     Stringify(<<S2C_LOGIN_REPLY, 0>>),
     Stringify(<<S2C_CLOCK_SYNC_REPLY, Small(1000), Small(5000)>>),
     Stringify(<<S2C_PLAYER_ENTERED, "name", 0>>),
     Stringify(<<S2C_PLAYER_LEFT, 0>>)}

\* a frame arrives at the application: 'message' fires
AppMessage ==
    /\ readyState \in {"OPEN", "CLOSING"}
    /\ \E data \in AppFrames, now \in FewNows :
          /\ Len(onMessage(World, data, now).calls) <= MaxCalls
          /\ Receive(data, now)
    /\ UNCHANGED lastFrame

\* the resources are loaded: Loading calls onLoadComplete_
LoadComplete ==
    /\ loading
    /\ CanSend
    /\ startGames < MaxStartGames
    /\ \E ship \in Ships, now \in FewNows :
          Commit(onLoadComplete_(World, ship, now))
    /\ startGames' = startGames + 1
    /\ UNCHANGED <<sentBeforeOpen, lastReply, query,
                   registered, lastFrame, overwrote, stampTime>>

\* the player types a chat line in the game
GameSendChat ==
    /\ games > 0
    /\ SendChat

\* a collaborator takes ts = remoteTime() at simulation time at, and asks
\* getMillisSinceServerTime(ts) at simulation time later
Query ==
    /\ \E at \in SimTimeSamples, later \in SimTimeSamples :
          query' = [at |-> at, later |-> later,
                    timestamp |-> remoteTime(World, at),
                    elapsed |-> getMillisSinceServerTime(
                                    World, remoteTime(World, at), later),
                    delta |-> serverTimeDelta, asked |-> TRUE]
    /\ Commit(returned(World))
    /\ UNCHANGED <<sentBeforeOpen, startGames, lastReply,
                   registered, lastFrame, overwrote, stampTime>>

FewMessage == Message(FewT0, FewServer, FewNows)

Next ==
    \/ Login
    \/ SendChat
    \/ SendPosition
    \/ RegisterEventHandler
    \/ FewRegisterPacketHandler
    \/ StartGame
    \/ TimerFire
    \/ SocketOpen
    \/ SocketClosing
    \/ SocketClose
    \/ SocketFail
    \/ FewMessage

Spec == Init /\ [][Next]_vars

\* the clock synchronizer alone: the application has logged in, the socket
\* is OPEN and the game has started
InGame ==
    startGame(onOpen([login(NewProtocol, "anonymous")
                         EXCEPT !.readyState = "OPEN"]),
              0, Date(Small(1000)))

InitClock ==
    /\ Is(InGame)
    /\ sentBeforeOpen = 1
    /\ startGames = 1
    /\ lastReply = <<>>
    /\ query = NoQuery
    /\ registered = <<>>
    /\ lastFrame = NoFrame
    /\ overwrote = FALSE
    /\ stampTime = NoStamp

ClockMessage == Message(T0Samples, ServerSamples, NowSamples)

NextClock ==
    \/ ClockMessage
    \/ Query

SpecClock == InitClock /\ [][NextClock]_vars

\* the dispatcher alone: in the game, with the socket OPEN or with the
\* server closing and a probe queued since; the application registers
\* handlers and frames arrive
Closing ==
    syncClocks([InGame EXCEPT !.readyState = "CLOSING"], Date(Small(1200)))

InitDispatch ==
    /\ Is(InGame) \/ Is(Closing)
    /\ sentBeforeOpen = 1
    /\ startGames = 1
    /\ lastReply = <<>>
    /\ query = NoQuery
    /\ registered = <<>>
    /\ lastFrame = NoFrame
    /\ overwrote = FALSE
    /\ stampTime = NoStamp

AnyRegisterPacketHandler == RegisterPacketHandler(PacketTypes, PacketHandlers)

NextDispatch ==
    \/ AnyRegisterPacketHandler
    \/ Inbound

SpecDispatch == InitDispatch /\ [][NextDispatch]_vars

\* the stamped sends alone: in the game, clock-sync replies arrive and the
\* simulation reports positions and flag captures
StampMessage == Message(FewT0, ServerSamples, FewNows)

SendPositionInGame == SendPositionAt(SimTimeSamples)

SendFlagCaptured == SendFlagCapturedAt(SimTimeSamples)

NextStamp ==
    \/ StampMessage
    \/ SendPositionInGame
    \/ SendFlagCaptured

SpecStamp == InitClock /\ [][NextStamp]_vars

\* the application: new Application(settings, url), then the tasks of the
\* event loop
InitApp ==
    /\ Is(NewApplication)
    /\ sentBeforeOpen = -1
    /\ startGames = 0
    /\ lastReply = <<>>
    /\ query = NoQuery
    /\ registered = <<>>
    /\ lastFrame = NoFrame
    /\ overwrote = FALSE
    /\ stampTime = NoStamp

NextApp ==
    \/ AppMessage
    \/ LoadComplete
    \/ GameSendChat
    \/ TimerFire
    \/ SocketOpen
    \/ SocketClosing
    \/ SocketClose
    \/ SocketFail

SpecApp == InitApp /\ [][NextApp]_vars

\* the fields of Protocol, the socket, the timers and the application
protocolVars ==
    <<readyState, wire, packetQueue, eventHandler, handlers, syncTimer,
      serverTimeDelta, roundTripTime, simulation, timers, nextHandle,
      loading, games, history, eventLog, calls, thrown>>

\* a protocol handler queues the creation of an entity
QueueCreation ==
    /\ queued < MaxInstructions
    /\ \E kind \in Kinds, id \in Ids, payload \in Payloads :
          instructions' = Append(instructions, Creation(kind, id, payload))
    /\ queued' = queued + 1
    /\ UNCHANGED <<registry, nextSerial, drawables, notified, lastBatch,
                   lastDrawn, protocolVars, Observed, uiVars>>

\* a protocol handler queues the removal of an entity
QueueRemoval ==
    /\ queued < MaxInstructions
    /\ \E kind \in Kinds, id \in Ids :
          instructions' = Append(instructions, Removal(kind, id))
    /\ queued' = queued + 1
    /\ UNCHANGED <<registry, nextSerial, drawables, notified, lastBatch,
                   lastDrawn, protocolVars, Observed, uiVars>>

\* the scheduler runs one tick of the simulation
Tick ==
    /\ instructions # <<>>
    /\ CommitSim(tick(Sim))
    /\ UNCHANGED <<queued, protocolVars, Observed, uiVars>>

\* the rendering loop draws one frame
Render ==
    /\ CommitSim(render(Sim))
    /\ UNCHANGED <<queued, protocolVars, Observed, uiVars>>

\* the simulation of a game in progress
NextSim ==
    \/ QueueCreation
    \/ QueueRemoval
    \/ Tick
    \/ Render

SpecSim == InitClock /\ [][NextSim]_vars

-----------------------------------------------------------------------------
(* goog.ui.ModalPopup: visibility, window listeners, transitions *)

\* setVisible calls in one run
MaxSetVisible == 3

\* a rendered popup: centerInsideParent_ as set before it entered the
\* document, whether the window has a ResizeObserver, and whether
\* setTransition gave it its four transitions
NewModalPopup(centerInsideParent, observerDefined, transitions) ==
    [centerInsideParent_ |-> centerInsideParent,
     observerDefined |-> observerDefined,
     transitions |-> transitions,
     visible_ |-> FALSE,
     shown |-> FALSE,
     listeners |-> {},
     observers |-> {},
     parentElementResizeObserver_ |-> 0,
     nextObserver |-> 1,
     showPlaying |-> FALSE,
     hidePlaying |-> FALSE,
     dispatched |-> <<>>,
     setVisibles |-> 0,
     lastCall |-> <<>>]

\* this.dispatchEvent(type)
dispatchEvent(p, type) == [p EXCEPT !.dispatched = Append(@, type)]

\* ModalPopup.onShow
onShow(p) == dispatchEvent(p, "SHOW")

\* ModalPopup.onHide
onHide(p) == dispatchEvent([p EXCEPT !.shown = FALSE], "HIDE")

\* the END event of the show transition reaches its listenOnce listener
endShow(p) ==
    IF p.showPlaying THEN onShow([p EXCEPT !.showPlaying = FALSE]) ELSE p

\* the END event of the hide transition reaches its listenOnce listener
endHide(p) ==
    IF p.hidePlaying THEN onHide([p EXCEPT !.hidePlaying = FALSE]) ELSE p

\* ModalPopup.show_; allowed is what dispatchEvent(BEFORE_SHOW) returns
show_(p, allowed) ==
    LET asked == dispatchEvent(p, "BEFORE_SHOW")
        listening ==
            IF p.centerInsideParent_ /\ p.observerDefined
            THEN [asked EXCEPT
                    !.parentElementResizeObserver_ = p.nextObserver,
                    !.observers = @ \cup {p.nextObserver},
                    !.nextObserver = @ + 1,
                    !.listeners = @ \cup
                        {<<"ORIENTATIONCHANGE", "updateModalAndBackgroundTask_">>}]
            ELSE [asked EXCEPT
                    !.listeners = @ \cup
                        {<<"RESIZE", "resizeBackground_">>,
                         <<"ORIENTATIONCHANGE", "resizeBackgroundTask_">>}]
        visible == [listening EXCEPT !.shown = TRUE, !.visible_ = TRUE]
    IN  IF ~allowed THEN asked
        ELSE IF p.transitions THEN [visible EXCEPT !.showPlaying = TRUE]
        ELSE onShow(visible)

\* ModalPopup.hide_; allowed is what dispatchEvent(BEFORE_HIDE) returns
hide_(p, allowed) ==
    LET asked == dispatchEvent(p, "BEFORE_HIDE")
        hidden == [asked EXCEPT
                     !.listeners = @ \
                         {<<"RESIZE", "resizeBackground_">>,
                          <<"ORIENTATIONCHANGE", "resizeBackgroundTask_">>},
                     !.visible_ = FALSE]
    IN  IF ~allowed THEN asked
        ELSE IF p.transitions THEN [hidden EXCEPT !.hidePlaying = TRUE]
        ELSE onHide(hidden)

\* (variant of setVisible that shows or hides whatever the visibility is)
setVisibleAnyway(p, visible, allowed) ==
    LET stopped == endHide(endShow(p))
    IN  IF visible THEN show_(stopped, allowed) ELSE hide_(stopped, allowed)

\* ModalPopup.setVisible: stop() of a playing transition ends it
setVisible(p, visible, allowed) ==
    LET stopped == endHide(endShow(p))
    IN  IF visible = p.visible_ THEN p
        ELSE IF visible THEN show_(stopped, allowed)
        ELSE hide_(stopped, allowed)

\* the protocol is idle and nothing was observed
Quiet ==
    /\ IsWorld(NewProtocol)
    /\ sentBeforeOpen = -1
    /\ startGames = 0
    /\ lastReply = <<>>
    /\ query = NoQuery
    /\ registered = <<>>
    /\ lastFrame = NoFrame
    /\ overwrote = FALSE
    /\ stampTime = NoStamp

InitPopup ==
    /\ Quiet
    /\ popup \in {NewModalPopup(c, o, t) : c \in BOOLEAN, o \in BOOLEAN,
                                          t \in BOOLEAN}
    /\ jukebox = <<>>
    /\ resources = <<>>
    /\ sorting = <<>>

\* the application calls popup.setVisible(visible); a listener of the
\* BEFORE_SHOW / BEFORE_HIDE event cancels it or not
SetVisible ==
    /\ popup.setVisibles < MaxSetVisible
    /\ \E visible \in BOOLEAN, allowed \in BOOLEAN :
          popup' = [setVisible(popup, visible, allowed) EXCEPT
                      !.setVisibles = @ + 1,
                      !.lastCall = <<visible, allowed>>]
    /\ UNCHANGED <<protocolVars, Observed, simVars, jukebox, resources, sorting>>

\* a playing transition reaches its end
TransitionEnd ==
    /\ popup.showPlaying \/ popup.hidePlaying
    /\ popup' = endHide(endShow(popup))
    /\ UNCHANGED <<protocolVars, Observed, simVars, jukebox, resources, sorting>>

NextPopup ==
    \/ SetVisible
    \/ TransitionEnd

SpecPopup == InitPopup /\ [][NextPopup]_vars

-----------------------------------------------------------------------------
(* Jukebox and its audio element *)

\* play and stop calls and audio events in one run
MaxJukeboxEvents == 4

\* the track lists: one to three tracks
TrackLists == {<<"a">>, <<"a", "b">>, <<"a", "b", "c">>}

\* audio_.play()
audioPlay(j) == [j EXCEPT !.playing = TRUE]

\* audio_.pause()
audioPause(j) == [j EXCEPT !.playing = FALSE]

\* audio_.src = url: the element drops what it was playing and loads url
audioSetSrc(j, url) ==
    [j EXCEPT !.src = url, !.playing = FALSE, !.loaded = Append(@, url)]

\* (variant of nextTrack_ that does not wrap the index)
nextTrack_NoWrap(j) ==
    [audioSetSrc(j, j.tracks_[(j.index_ % Len(j.tracks_)) + 1])
        EXCEPT !.index_ = j.index_ + 1]

\* Jukebox.nextTrack_
nextTrack_(j) ==
    [audioSetSrc(j, j.tracks_[j.index_ + 1])
        EXCEPT !.index_ = (j.index_ + 1) % Len(j.tracks_)]

\* new Jukebox(tracks)
NewJukebox(tracks) ==
    nextTrack_([tracks_ |-> tracks, index_ |-> 0, shouldPlay_ |-> FALSE,
                src |-> "", playing |-> FALSE, loaded |-> <<>>,
                readyPlays |-> 0, trace |-> <<>>])

\* Jukebox.play
play(j) == [audioPlay(j) EXCEPT !.shouldPlay_ = TRUE]

\* Jukebox.stop
stop(j) == audioPause([j EXCEPT !.shouldPlay_ = FALSE])

\* (variant of onPlayReady_ that plays whatever was asked)
onPlayReady_Always(j) == [audioPlay(j) EXCEPT !.readyPlays = @ + 1]

\* Jukebox.onPlayReady_; readyPlays counts its audio_.play() calls
onPlayReady_(j) ==
    IF j.shouldPlay_ THEN [audioPlay(j) EXCEPT !.readyPlays = @ + 1] ELSE j

InitJukebox ==
    /\ Quiet
    /\ jukebox \in {NewJukebox(tracks) : tracks \in TrackLists}
    /\ popup = <<>>
    /\ resources = <<>>
    /\ sorting = <<>>

\* one task on the jukebox, noted in its trace
JukeboxTask(name, after) ==
    /\ Len(jukebox.trace) < MaxJukeboxEvents
    /\ jukebox' = [after EXCEPT !.trace = Append(@, name)]
    /\ UNCHANGED <<protocolVars, Observed, simVars, popup, resources, sorting>>

\* jukebox.play()
Play == JukeboxTask("play", play(jukebox))

\* jukebox.stop()
Stop == JukeboxTask("stop", stop(jukebox))

\* the audio element fires 'ended': the track that played is over
Ended ==
    /\ jukebox.playing
    /\ JukeboxTask("ended", nextTrack_([jukebox EXCEPT !.playing = FALSE]))

\* the audio element fires 'canplay'
CanPlay == JukeboxTask("canplay", onPlayReady_(jukebox))

NextJukebox ==
    \/ Play
    \/ Stop
    \/ Ended
    \/ CanPlay

SpecJukebox == InitJukebox /\ [][NextJukebox]_vars

-----------------------------------------------------------------------------
(* ResourceManager *)

\* load calls in one run
MaxLoads == 2

\* resource names
ResourceNames == {"ship", "bullets"}

\* new ResourceManager(); every resource object gets a fresh id, pending
\* holds the resources whose load callback has not fired, and last is the
\* last call with what it returned or that it threw
NewResourceManager ==
    [images_ |-> <<>>, spriteSheets_ |-> <<>>, sounds_ |-> <<>>,
     nextResource |-> 1, pending |-> {}, played |-> <<>>,
     loads |-> <<>>, last |-> <<>>]

\* Map.set(name, value)
mapSet(map, name, value) ==
    [n \in DOMAIN map \cup {name} |-> IF n = name THEN value ELSE map[n]]

\* new Image / SpriteSheet / Sound and its load(url, cb): the callback is
\* pending until the browser has loaded url
startLoad(r, kind, name) ==
    [r EXCEPT !.nextResource = @ + 1,
              !.pending = @ \cup {r.nextResource},
              !.loads = Append(@, <<kind, name, r.nextResource>>),
              !.last = <<kind, name>>]

\* (variant of loadImage that keeps an image already registered)
loadImageKeep(r, name) ==
    LET begun == startLoad(r, "image", name)
    IN  IF name \in DOMAIN r.images_ THEN begun
        ELSE [begun EXCEPT !.images_ = mapSet(@, name, r.nextResource)]

\* ResourceManager.loadImage
loadImage(r, name) ==
    [startLoad(r, "image", name)
        EXCEPT !.images_ = mapSet(@, name, r.nextResource)]

\* ResourceManager.loadSpriteSheet
loadSpriteSheet(r, name) ==
    [startLoad(r, "spriteSheet", name)
        EXCEPT !.spriteSheets_ = mapSet(@, name, r.nextResource)]

\* ResourceManager.loadSound
loadSound(r, name) ==
    [startLoad(r, "sound", name)
        EXCEPT !.sounds_ = mapSet(@, name, r.nextResource)]

\* map.get(name) and the assert after it: the value, or a thrown Error
lookup(r, op, map, name) ==
    IF name \in DOMAIN map
    THEN [r EXCEPT !.last = <<op, name, "returned", map[name]>>]
    ELSE [r EXCEPT !.last = <<op, name, "threw", 0>>]

\* ResourceManager.getImage
getImage(r, name) == lookup(r, "getImage", r.images_, name)

\* ResourceManager.getSpriteSheet
getSpriteSheet(r, name) == lookup(r, "getSpriteSheet", r.spriteSheets_, name)

\* ResourceManager.playSound
playSound(r, name) ==
    LET found == lookup(r, "playSound", r.sounds_, name)
    IN  IF name \in DOMAIN r.sounds_
        THEN [found EXCEPT !.played = <<r.sounds_[name]>>]
        ELSE found

InitResources ==
    /\ Quiet
    /\ resources = NewResourceManager
    /\ popup = <<>>
    /\ jukebox = <<>>
    /\ sorting = <<>>

\* one call on the resource manager
ResourceCall(after) ==
    /\ resources' = after
    /\ UNCHANGED <<protocolVars, Observed, simVars, popup, jukebox, sorting>>

LoadImage ==
    /\ Len(resources.loads) < MaxLoads
    /\ \E name \in ResourceNames : ResourceCall(loadImage(resources, name))

LoadSpriteSheet ==
    /\ Len(resources.loads) < MaxLoads
    /\ \E name \in ResourceNames :
          ResourceCall(loadSpriteSheet(resources, name))

LoadSound ==
    /\ Len(resources.loads) < MaxLoads
    /\ \E name \in ResourceNames : ResourceCall(loadSound(resources, name))

\* the browser has loaded a resource: its load callback fires
LoadCallback ==
    \E id \in resources.pending :
        ResourceCall([resources EXCEPT !.pending = @ \ {id},
                                       !.last = <<"loaded", id>>])

GetImage ==
    \E name \in ResourceNames : ResourceCall(getImage(resources, name))

GetSpriteSheet ==
    \E name \in ResourceNames : ResourceCall(getSpriteSheet(resources, name))

PlaySound ==
    \E name \in ResourceNames : ResourceCall(playSound(resources, name))

NextResources ==
    \/ LoadImage
    \/ LoadSpriteSheet
    \/ LoadSound
    \/ LoadCallback
    \/ GetImage
    \/ GetSpriteSheet
    \/ PlaySound

SpecResources == InitResources /\ [][NextResources]_vars

-----------------------------------------------------------------------------
(* Array.prototype.stableSort *)

\* the length of the arrays sorted
MaxLen == 3

\* array elements: a key and a tag
Items == {<<k, t>> : k \in {1, 2}, t \in {"x", "y"}}

\* the arrays of at most MaxLen elements
Arrays == UNION {[1..n -> Items] : n \in 0..MaxLen}

\* compare functions: by key, by key downwards, and the default one, which
\* orders the elements by a > b and a < b (key first, then tag)
CompareFns == {"byKey", "byKeyDown", "default"}

\* compareFn(a, b) of the compare function with this name
compareFn(fn, a, b) ==
    CASE fn = "byKey" -> a[1] - b[1]
      [] fn = "byKeyDown" -> b[1] - a[1]
      [] OTHER -> IF a[1] > b[1] \/ (a[1] = b[1] /\ a[2] = "y" /\ b[2] = "x")
                  THEN 1
                  ELSE IF a = b THEN 0 ELSE -1

\* the orders of n elements
Orders(n) == {p \in [1..n -> 1..n] : \A i, j \in 1..n : p[i] = p[j] => i = j}

\* this.map((item, index) => ({item, index}))
wrap(array) == [i \in DOMAIN array |-> [item |-> array[i], index |-> i - 1]]

\* (variant of decorated that compares the items only)
decoratedPlain(fn, a, b) == compareFn(fn, a.item, b.item)

\* compareFn(a.item, b.item) || a.index - b.index
decorated(fn, a, b) ==
    IF compareFn(fn, a.item, b.item) # 0
    THEN compareFn(fn, a.item, b.item)
    ELSE a.index - b.index

\* Array.prototype.sort with the comparator of stableSort: every order of
\* the elements in which no element is followed by one the comparator puts
\* before it; which of them, an engine without a stable sort decides
sort(array, fn) ==
    {[i \in DOMAIN array |-> array[p[i]]] : p \in
        {q \in Orders(Len(array)) :
            \A i, j \in DOMAIN array :
                i < j => decorated(fn, array[q[i]], array[q[j]]) <= 0}}

\* Array.prototype.stableSort: the arrays it can return
stableSort(array, fn) ==
    {[i \in DOMAIN sorted |-> sorted[i].item] : sorted \in sort(wrap(array), fn)}

InitSort ==
    /\ Quiet
    /\ sorting \in {[receiver |-> array, compareFn |-> fn, input |-> array,
                     done |-> FALSE, output |-> <<>>] :
                        array \in Arrays, fn \in CompareFns}
    /\ popup = <<>>
    /\ jukebox = <<>>
    /\ resources = <<>>

\* receiver.stableSort(compareFn) returns
StableSort ==
    /\ ~sorting.done
    /\ \E result \in stableSort(sorting.receiver, sorting.compareFn) :
          sorting' = [sorting EXCEPT !.done = TRUE, !.output = result]
    /\ UNCHANGED <<protocolVars, Observed, simVars, popup, jukebox, resources>>

NextSort == StableSort

SpecSort == InitSort /\ [][NextSort]_vars

-----------------------------------------------------------------------------
(* Claims *)

\* a step in which send was called once, and the packet it was called with
SendStep == Len(history') = Len(history) + 1

SentPacket == history'[Len(history')]

\* C1: the packets sent before the open event are, once it has fired, the
\* first packets on the transport, each once and in the order of the send
\* calls, and the queue is empty in the state the open event leaves.
C1_QueueOrdering ==
    sentBeforeOpen >= 0 =>
        /\ Len(wire) >= sentBeforeOpen
        /\ \A i \in 1..sentBeforeOpen : wire[i] = history[i]
        /\ (Len(history) = sentBeforeOpen /\ readyState = "OPEN") =>
               (wire = history /\ packetQueue = <<>>)

\* C1 witness: two different packets were queued while CONNECTING and the
\* open event has just drained them.
C1_Witness ==
    /\ readyState = "OPEN"
    /\ sentBeforeOpen = 2
    /\ Len(history) = 2
    /\ history[1] # history[2]
    /\ wire = history

\* C2: a call of send on an OPEN socket appends the packet to the transport
\* and leaves the queue as it is; on any other socket it appends the packet
\* to the tail of the queue and transmits nothing.
C2_SendTransmitsOrQueues ==
    [][SendStep =>
          IF readyState = "OPEN"
          THEN wire' = Append(wire, SentPacket) /\ packetQueue' = packetQueue
          ELSE packetQueue' = Append(packetQueue, SentPacket) /\ wire' = wire]_vars

\* C2 witness: nothing was queued before the open event, one packet was
\* transmitted while OPEN and one was queued while CLOSING.
C2_Witness ==
    /\ readyState = "CLOSING"
    /\ sentBeforeOpen = 0
    /\ Len(wire) = 1
    /\ Len(packetQueue) = 1

\* C3 as stated: once the open event has fired the queue is empty in every
\* later state, after a close too.
C3_QueueEmptyOnceOpened == sentBeforeOpen >= 0 => packetQueue = <<>>

\* C3 amended: while the socket is OPEN the queue is empty and every packet
\* sent so far has been handed to the transport, in order.
C3_QueueUnusedWhileOpen ==
    readyState = "OPEN" => (packetQueue = <<>> /\ wire = history)

\* C3 witness: packets were drained at the open event and another one was
\* sent afterwards, the socket still OPEN.
C3_Witness ==
    /\ readyState = "OPEN"
    /\ sentBeforeOpen >= 1
    /\ Len(history) > sentBeforeOpen

\* C4: a disconnect callback that was registered when the connection went
\* down has run exactly once.
C4_DisconnectExactlyOnce ==
    (readyState = "CLOSED" /\ eventLog # <<>> /\ Head(eventLog) # NOOP) =>
        Len(eventLog) = 1

\* C5: once the connection is CLOSED no clock-sync probe timer is active.
C5_NoProbeTimerOnceClosed ==
    readyState = "CLOSED" => \A t \in timers : t.cb # "syncClocks"

\* C6: the step that closes the connection leaves the queue empty and hands
\* nothing to the transport, and no step of a CLOSED connection hands
\* anything to the transport.
C6_ClosedDropsQueue ==
    [][readyState' = "CLOSED" =>
          /\ wire' = wire
          /\ readyState # "CLOSED" => packetQueue' = <<>>]_vars

\* C6 witness: the connection is CLOSED, packets that were queued when it
\* closed are gone, and a packet sent after the close sits in the queue.
C6_Witness ==
    /\ readyState = "CLOSED"
    /\ Len(history) > Len(wire) + Len(packetQueue)
    /\ Len(packetQueue) >= 1

InUint32(n) == Leq(Zero, n) /\ Less(n, Two32)

\* C7: after a clock-sync reply the stored serverTimeDelta is in [0, 2^32).
C7_DeltaInRange == lastReply # <<>> => InUint32(serverTimeDelta)

\* C8: after a clock-sync reply the stored roundTripTime is
\* (asInt32(now) - t0) mod 2^32, in [0, 2^32).
C8_RoundTripWraparound ==
    lastReply # <<>> =>
        /\ roundTripTime = Mod32(Sub(asInt32(lastReply[3]), lastReply[1]))
        /\ InUint32(roundTripTime)

\* C8 witness: the probe left at 2^31 - 51 and the reply came 100 ms later,
\* the 32-bit local clock having wrapped to -2^31 + 49 in between.
C8_Witness ==
    /\ lastReply # <<>>
    /\ lastReply[1] = Sub(MaxInt32, Small(50))
    /\ asInt32(lastReply[3]) = Add(MinInt32, Small(49))
    /\ roundTripTime = Small(100)

\* C9: with a delta in [0, 2^32), the elapsed time asked at local time L'
\* for ts = remoteTime() taken at local time L is (L' - L) mod 2^32.
C9_TranslationRoundTrip ==
    (query.asked /\ InUint32(query.delta)) =>
        query.elapsed = Mod32(Sub(query.later, query.at))

\* f = floor(x - 0.6 * rtt), stated without the division: f is the integer
\* with 3 rtt <= 5 (x - f) < 3 rtt + 5
IsWeightedFloor(f, x, rtt) ==
    /\ Leq(Times(rtt, 3), Times(Sub(x, f), 5))
    /\ Less(Times(Sub(x, f), 5), Add(Times(rtt, 3), Small(5)))

\* C10: the reply (t0 = 1000, serverTime = 5000) handled at local time 1200
\* leaves roundTripTime = 200 and serverTimeDelta = 3880; after every reply
\* the delta is floor(serverTime - t0 - 0.6 * rtt), with 2^32 added when
\* that floor is negative.
C10_WeightedDelta ==
    lastReply # <<>> =>
        LET x == Sub(lastReply[2], lastReply[1])
        IN  /\ (/\ lastReply[1] = Small(1000)
                /\ lastReply[2] = Small(5000)
                /\ asInt32(lastReply[3]) = Small(1200)) =>
                   (roundTripTime = Small(200) /\ serverTimeDelta = Small(3880))
            /\ \/ /\ IsWeightedFloor(serverTimeDelta, x, roundTripTime)
                  /\ Leq(Zero, serverTimeDelta)
               \/ /\ IsWeightedFloor(Sub(serverTimeDelta, Two32), x, roundTripTime)
                  /\ Less(Sub(serverTimeDelta, Two32), Zero)

\* C10 witness: the scenario's reply has been handled.
C10_Witness ==
    /\ lastReply = <<Small(1000), Small(5000), Date(Small(1200))>>
    /\ roundTripTime = Small(200)
    /\ serverTimeDelta = Small(3880)

-----------------------------------------------------------------------------
(* Claims about the dispatcher *)

\* the invocations of external handlers made by this step, in order
NewCalls == SubSeq(calls', Len(calls) + 1, Len(calls'))

\* a step in which the watched dispatcher ran on a new frame or invoked
\* an external handler
DispatchStep == lastFrame' # lastFrame \/ calls' # calls

\* the type a frame is tagged with, <<>> when it has none
FrameType(data) ==
    IF Parses(data) /\ Parse(data).type = "array" /\ Parse(data).items # <<>>
    THEN <<Parse(data).items[1]>> ELSE <<>>

\* the callbacks registered for a type, in the order of their
\* registerPacketHandler calls
RegisteredFor(type) ==
    LET of == SelectSeq(registered, LAMBDA r : <<r[1]>> = type)
    IN  [i \in 1..Len(of) |-> of[i][2]]

\* C11: the handlers of a type are invoked in the order in which they were
\* registered: when H1 was registered before H2 for the type of a frame, the
\* dispatch of that frame invokes H1, lets it return, and then invokes H2.
C11_RegistrationOrder ==
    [][DispatchStep =>
          [i \in 1..Len(NewCalls) |-> NewCalls[i][1]]
              = RegisteredFor(FrameType(lastFrame'))]_vars

\* two handlers of LOGIN_REPLY, and a login reply that reached the first
\* registered one and then the other
C11_Witness ==
    /\ registered = <<<<S2C_LOGIN_REPLY, "onPlayerEntered_">>,
                      <<S2C_LOGIN_REPLY, "startGame_">>>>
    /\ calls = <<<<"onPlayerEntered_", <<1>>>>, <<"startGame_", <<1>>>>>>

\* the external handlers the registry holds for a type
HandlersOf(type) ==
    IF type # <<>> /\ type[1] \in DOMAIN handlers
    THEN SelectSeq(handlers[type[1]], LAMBDA h : h # "onClockSyncReply")
    ELSE <<>>

\* C12: one frame [type, f1, ..., fn] invokes every handler registered for
\* type exactly once, each with the payload [f1, ..., fn] (the type removed),
\* and invokes no handler that is not registered for type; so one login
\* reply reaches the login-reply handler once and no more.
C12_OnceWithPayload ==
    [][(DispatchStep /\ FrameType(lastFrame') # <<>>) =>
          /\ Len(NewCalls) = Len(HandlersOf(FrameType(lastFrame')))
          /\ \A i \in 1..Len(NewCalls) :
                /\ NewCalls[i][1] = HandlersOf(FrameType(lastFrame'))[i]
                /\ NewCalls[i][2] = Tail(Parse(lastFrame').items)]_vars

\* handlers for two types, and a player entry that reached its own handler
\* only, with the two fields of the frame
C12_Witness ==
    /\ registered = <<<<S2C_LOGIN_REPLY, "startGame_">>,
                      <<S2C_PLAYER_ENTERED, "onPlayerEntered_">>>>
    /\ lastFrame = Stringify(<<S2C_PLAYER_ENTERED, "name", 0>>)
    /\ calls = <<<<"onPlayerEntered_", <<"name", 0>>>>>>

\* C13: a frame that is not JSON, or whose JSON is not a tagged array (null,
\* a number, an object, an empty array) is dropped: the listener returns
\* without an exception.
C13_UntaggedDropped ==
    (lastFrame # NoFrame /\ FrameType(lastFrame) = <<>>) => ~thrown

\* C14: a frame whose type has no registered handler is discarded: no
\* handler is invoked and the fields of Protocol, the timers and the socket
\* are as they were.
C14_UnknownTypeDiscarded ==
    [][(lastFrame' # lastFrame /\ FrameType(lastFrame') # <<>>
            /\ FrameType(lastFrame')[1] \notin DOMAIN handlers) =>
          /\ UNCHANGED <<readyState, wire, packetQueue, eventHandler, handlers,
                         syncTimer, serverTimeDelta, roundTripTime, simulation,
                         timers, nextHandle>>
          /\ UNCHANGED <<history, eventLog, calls>>
          /\ ~thrown']_vars

\* a score update nobody handles arrived while a probe was queued, the
\* probe timer was running and a handler of another type was registered
C14_Witness ==
    /\ lastFrame = Stringify(<<S2C_SCORE_UPDATE, 3>>)
    /\ packetQueue # <<>>
    /\ timers # {}
    /\ registered # <<>>
    /\ calls = <<>>

-----------------------------------------------------------------------------
(* Claims about the clock state and the life of the connection *)

\* C15: roundTripTime and serverTimeDelta change only in a step that
\* dispatches a clock-sync reply: sends, startGame, the probe timer, the
\* socket events, registrations and frames of every other kind leave both
\* as they were.
C15_ClockFrame ==
    [][lastReply' = lastReply =>
          UNCHANGED <<roundTripTime, serverTimeDelta>>]_vars

\* the estimate of a reply is still there after the connection closed and
\* a packet was sent into the closed channel
C15_Witness ==
    /\ serverTimeDelta = Small(3880)
    /\ roundTripTime = Small(200)
    /\ readyState = "CLOSED"
    /\ eventLog # <<>>
    /\ packetQueue # <<>>

\* the clock state a new Protocol has after the reply <<t0, serverTime>>
\* handled at Date.now() = now
FreshEstimate(t0, serverTime, now) ==
    LET fresh == onClockSyncReply(NewProtocol, <<t0, serverTime>>, now)
    IN  <<fresh.roundTripTime, fresh.serverTimeDelta>>

\* C16: the clock state after a reply depends on the reply and the local
\* time it was handled at, and on nothing before it: whatever the clock
\* state was, it is now what a new instance would hold after the same reply
\* at the same local time.
C16_NoSmoothing ==
    lastReply # <<>> =>
        <<roundTripTime, serverTimeDelta>>
            = FreshEstimate(lastReply[1], lastReply[2], lastReply[3])

\* a reply replaced an earlier, different estimate and left the estimate a
\* new instance computes for it
C16_Witness ==
    /\ overwrote
    /\ lastReply = <<Small(1000), Small(5000), Date(Small(1200))>>
    /\ roundTripTime = Small(200)
    /\ serverTimeDelta = Small(3880)

\* the packet type of a sent packet
TypeOf(packet) == packet.json[1]

\* in packets, every packet of type later has a packet of type earlier
\* before it
Precedes(packets, earlier, later) ==
    \A i \in 1..Len(packets) :
        TypeOf(packets[i]) = later =>
            \E j \in 1..(i - 1) : TypeOf(packets[j]) = earlier

\* C17: no probe is sent or queued, and no probe timer runs, before
\* startGame was called; every CLOCK_SYNC handed to send and every
\* CLOCK_SYNC on the transport has a START_GAME before it, and when the
\* application's first message is its LOGIN, a LOGIN before it as well.
C17_ProbesAfterStartGame ==
    /\ startGames = 0 => timers = {}
    /\ Precedes(history, C2S_START_GAME, C2S_CLOCK_SYNC)
    /\ Precedes(wire, C2S_START_GAME, C2S_CLOCK_SYNC)
    /\ (history # <<>> /\ TypeOf(history[1]) = C2S_LOGIN) =>
           Precedes(wire, C2S_LOGIN, C2S_CLOCK_SYNC)

\* LOGIN, START_GAME and a probe went over the transport, in this order
C17_Witness ==
    /\ Len(wire) = 3
    /\ TypeOf(wire[1]) = C2S_LOGIN
    /\ TypeOf(wire[2]) = C2S_START_GAME
    /\ TypeOf(wire[3]) = C2S_CLOCK_SYNC

\* C18: closing is terminal: once onClose has run the socket is CLOSED and
\* stays CLOSED, and no step hands a packet to the transport, so a queue
\* filled after the close is never drained.
C18_ClosingIsTerminal ==
    [][eventLog # <<>> =>
          /\ readyState = "CLOSED"
          /\ readyState' = "CLOSED"
          /\ wire' = wire]_vars

\* the channel was open and transmitted, it closed, and two packets sent
\* since then stay in the queue
C18_Witness ==
    /\ sentBeforeOpen >= 0
    /\ wire # <<>>
    /\ readyState = "CLOSED"
    /\ eventLog # <<>>
    /\ Len(packetQueue) = 2

\* C19: the timestamp of a POSITION or FLAG_CAPTURED message of a started
\* game is asInt32(simulation time + serverTimeDelta), with the
\* serverTimeDelta the instance holds when the message is sent.
C19_StampIsRemoteTime ==
    [][(SendStep /\ simulation
            /\ TypeOf(SentPacket) \in {C2S_POSITION, C2S_FLAG_CAPTURED}) =>
          SentPacket.json[2] = asInt32(Add(stampTime', serverTimeDelta))]_vars

\* a flag capture stamped with a remote time that wrapped below zero while
\* the local time, as an int32, is positive
C19_Witness ==
    /\ stampTime # NoStamp
    /\ TypeOf(history[Len(history)]) = C2S_FLAG_CAPTURED
    /\ Less(history[Len(history)].json[2], Zero)
    /\ Less(Zero, asInt32(stampTime))

\* C20: a query of the synchronized time before the first clock-sync reply
\* ends by an exception.
C20_UnsyncedQueryFails ==
    (query.asked /\ lastReply = <<>>) => thrown

-----------------------------------------------------------------------------
(* Claims about the application *)

\* C21: the first message the application passes to send, and the first
\* message handed to the transport, directly or out of the drained queue,
\* is the LOGIN message.
C21_LoginFirst ==
    /\ history # <<>> => TypeOf(history[1]) = C2S_LOGIN
    /\ wire # <<>> => TypeOf(wire[1]) = C2S_LOGIN

\* the LOGIN was queued, drained when the socket opened, and START_GAME
\* followed it over the transport
C21_Witness ==
    /\ sentBeforeOpen = 1
    /\ Len(wire) >= 2
    /\ TypeOf(wire[1]) = C2S_LOGIN
    /\ TypeOf(wire[2]) = C2S_START_GAME

\* C26: once the connection is CLOSED no heartbeat interval is active.
C26_HeartbeatStopsOnClose ==
    readyState = "CLOSED" => \A t \in timers : t.cb # "heartbeat_"

\* C27: with a simulation attached and serverTimeDelta in [0, 2^32),
\* getMillisSinceServerTime of an int32 timestamp is in [0, 2^32).
C27_ElapsedInRange ==
    (query.asked /\ simulation /\ InUint32(query.delta)) =>
        InUint32(query.elapsed)

\* a login reply with success flag 1 was dispatched to startGame_
SuccessDispatched ==
    \E i \in 1..Len(calls) :
        /\ calls[i][1] = "startGame_"
        /\ calls[i][2] # <<>>
        /\ calls[i][2][1] = 1

\* a packet of this type was passed to send
Sent(type) == \E i \in 1..Len(history) : TypeOf(history[i]) = type

\* C28: resources are loaded and a Game is constructed only after a login
\* reply with success flag 1 was dispatched, and START_GAME and clock-sync
\* probes are produced only once a Game was constructed; a reply with
\* another flag starts nothing.
C28_StartAfterLogin ==
    /\ (loading \/ games > 0) => SuccessDispatched
    /\ (Sent(C2S_START_GAME) \/ Sent(C2S_CLOCK_SYNC)) => games > 0
    /\ games = 0 => timers = {}

\* a failed login reply started nothing, the successful one after it led to
\* a Game, and START_GAME went over the transport
C28_Witness ==
    /\ calls = <<<<"startGame_", <<0>>>>, <<"startGame_", <<1>>>>>>
    /\ games = 1
    /\ Len(wire) = 2
    /\ TypeOf(wire[2]) = C2S_START_GAME

\* the packet types whose handlers Game registers
GameTypes ==
    {S2C_PLAYER_ENTERED, S2C_PLAYER_LEFT, S2C_PLAYER_DIED, S2C_CHAT_MESSAGE}

\* C29: once START_GAME was passed to send, the disconnect callback of the
\* Game and a handler for each of PLAYER_ENTERED, PLAYER_LEFT, PLAYER_DIED
\* and CHAT_MESSAGE are registered.
C29_HandlersBeforeStart ==
    Sent(C2S_START_GAME) =>
        /\ eventHandler = "onConnectionLost"
        /\ \A type \in GameTypes :
              type \in DOMAIN handlers /\ handlers[type] # <<>>

\* START_GAME went over the transport and the player departure the server
\* sent afterwards reached the handler of the Game
C29_Witness ==
    /\ Len(wire) >= 2
    /\ TypeOf(wire[2]) = C2S_START_GAME
    /\ calls = <<<<"startGame_", <<1>>>>, <<"onPlayerLeft_", <<0>>>>>>

\* C30: a close or error event invokes the callback that is in the slot
\* when it fires, and nothing else; registering a callback replaces the
\* slot and delivers nothing, so a close that came before the registration
\* never reaches the new callback.
C30_SingleSlot ==
    [][/\ \A i \in (Len(eventLog) + 1)..Len(eventLog') :
              eventLog'[i] = eventHandler
       /\ eventHandler' # eventHandler => eventLog' = eventLog]_vars

\* the connection closed while the resources were loading: the empty
\* callback of the constructor was invoked, and the Game that registered
\* its callback afterwards was not told
C30_Witness ==
    /\ readyState = "CLOSED"
    /\ eventLog = <<NOOP>>
    /\ eventHandler = "onConnectionLost"
    /\ games = 1

-----------------------------------------------------------------------------
(* Claims about the entity registry and the bullet sprite *)

\* C22: the registry holds at most one live entity per (kind, identity).
C22_OneLivePerIdentity ==
    \A e1 \in registry, e2 \in registry :
        (e1.kind = e2.kind /\ e1.id = e2.id) => e1 = e2

\* player 7 was created while player 7 was Live: the first entity was
\* reported removed and the second one is the only player 7
C22_Witness ==
    /\ registry = {[kind |-> "player", id |-> 7, payload |-> "b", serial |-> 2]}
    /\ notified = <<<<"created", 1>>, <<"removed", 1>>, <<"created", 2>>>>

\* a step that is a tick
TickStep == instructions # <<>> /\ instructions' = <<>>

\* the payload of the last creation queued for an identity
LastCreated(kind, id) ==
    LET of == SelectSeq(instructions,
                  LAMBDA ins : ins.op = "create" /\ ins.kind = kind
                                   /\ ins.id = id)
    IN  of[Len(of)].payload

\* C23: when a tick processes a creation for an identity, whatever
\* removals of that identity were queued with it, the registry after the
\* tick holds the entity of the last such creation: removals come first.
C23_RemovalBeforeCreation ==
    [][TickStep =>
          \A kind \in Kinds, id \in Ids :
              (\E i \in 1..Len(instructions) :
                   instructions[i] \in {Creation(kind, id, p) : p \in Payloads})
              => \E e \in registry' :
                     /\ e.kind = kind
                     /\ e.id = id
                     /\ e.payload = LastCreated(kind, id)]_vars

\* player-entered(7), player-left(7), player-entered(7) in one tick, and
\* player 7 is Live with the payload of the second player-entered
C23_Witness ==
    /\ lastBatch = <<Creation("player", 7, "a"), Removal("player", 7),
                     Creation("player", 7, "b")>>
    /\ \E e \in registry :
           e.kind = "player" /\ e.id = 7 /\ e.payload = "b"
    /\ instructions = <<>>

\* C24: a tick whose instructions are removals of identities that are not
\* in the registry completes and leaves the registry as it was, with no
\* notification.
C24_UnknownRemovalNoOp ==
    [][(TickStep /\ \A i \in 1..Len(instructions) :
                        /\ instructions[i].op = "remove"
                        /\ Holders(Sim, instructions[i].kind,
                                   instructions[i].id) = {}) =>
          /\ registry' = registry
          /\ notified' = notified
          /\ nextSerial' = nextSerial]_vars

\* player-left(99) for a player 99 that never existed was processed next
\* to a live player 7, which is still there
C24_Witness ==
    /\ lastBatch = <<Removal("player", 99)>>
    /\ instructions = <<>>
    /\ notified = <<<<"created", 1>>>>
    /\ registry = {[kind |-> "player", id |-> 7, payload |-> "a", serial |-> 1]}

\* the serials of the live entities
LiveSerials == {e.serial : e \in registry}

\* a step that is a frame which drew or unregistered something else than
\* the frame before
RenderStep ==
    /\ instructions' = instructions
    /\ queued' = queued
    /\ <<lastDrawn, drawables>>' # <<lastDrawn, drawables>>

\* C25: a frame draws only bullets that are valid, and the sprite of a
\* bullet that is not valid is unregistered by the frame that finds it so
\* and never registered again; an entity that left the registry does not
\* come back and its removal was notified.
C25_InvalidNeverDrawn ==
    [][/\ RenderStep =>
              /\ lastDrawn' \subseteq LiveSerials
              /\ drawables' \subseteq LiveSerials
       /\ \A serial \in 1..(nextSerial - 1) :
              /\ serial \notin drawables => serial \notin drawables'
              /\ serial \notin LiveSerials =>
                     /\ serial \notin LiveSerials'
                     /\ \E i \in 1..Len(notified) :
                            notified[i] = <<"removed", serial>>]_vars

\* bullet 1 was removed, and the frame after the removal drew nothing and
\* unregistered its sprite
C25_Witness ==
    /\ notified = <<<<"created", 1>>, <<"removed", 1>>>>
    /\ registry = {}
    /\ drawables = {}
    /\ lastDrawn = {}
    /\ lastBatch = <<Removal("projectile", 7)>>

-----------------------------------------------------------------------------
(* Claims about the probe timer, the popup, the jukebox and the resources *)

\* the active clock-sync probe timers
ProbeTimers == {t \in timers : t.cb = "syncClocks"}

\* C31: at most one clock-sync probe timer is active, and syncTimer holds
\* the handle of every active probe timer.
C31_OneProbeTimer ==
    /\ Cardinality(ProbeTimers) <= 1
    /\ \A t \in ProbeTimers : t.id = syncTimer

\* C32: while the popup is hidden no window listener and no ResizeObserver
\* of show_ is active.
C32_HiddenStopsListening ==
    (popup # <<>> /\ ~popup.visible_) =>
        /\ popup.listeners = {}
        /\ popup.observers = {}

\* a step that is a setVisible call
SetVisibleStep == popup # <<>> /\ popup'.setVisibles = popup.setVisibles + 1

\* the events the step dispatched
Dispatched ==
    SubSeq(popup'.dispatched, Len(popup.dispatched) + 1, Len(popup'.dispatched))

\* C33: setVisible with the current visibility changes nothing and
\* dispatches nothing; a show whose BEFORE_SHOW is cancelled leaves the
\* popup not visible and dispatches no SHOW; a hide whose BEFORE_HIDE is not
\* cancelled leaves isVisible() false at once, transition or not.
C33_VisibilityTransitions ==
    [][SetVisibleStep =>
          LET visible == popup'.lastCall[1]
              allowed == popup'.lastCall[2]
          IN  /\ visible = popup.visible_ =>
                    popup' = [popup EXCEPT !.setVisibles = popup'.setVisibles,
                                           !.lastCall = popup'.lastCall]
              /\ (visible /\ ~popup.visible_ /\ ~allowed) =>
                    /\ ~popup'.visible_
                    /\ \A i \in 1..Len(Dispatched) : Dispatched[i] # "SHOW"
              /\ (~visible /\ popup.visible_ /\ allowed) =>
                    ~popup'.visible_]_vars

\* setVisible(false) was allowed on a popup with transitions: the hide
\* transition is still playing and the popup is already not visible
C33_Witness ==
    /\ popup # <<>>
    /\ popup.lastCall = <<FALSE, TRUE>>
    /\ popup.hidePlaying
    /\ ~popup.visible_
    /\ popup.shown

\* C34: index_ stays in [0, tracks.length), and the k-th track loaded is
\* tracks[(k - 1) mod n].
C34_TrackIndex ==
    jukebox # <<>> =>
        /\ jukebox.index_ \in 0..(Len(jukebox.tracks_) - 1)
        /\ \A k \in 1..Len(jukebox.loaded) :
              jukebox.loaded[k] =
                  jukebox.tracks_[((k - 1) % Len(jukebox.tracks_)) + 1]

\* both tracks of a list of two played to their end: the third load is the
\* first track again
C34_Witness ==
    /\ jukebox # <<>>
    /\ jukebox.tracks_ = <<"a", "b">>
    /\ jukebox.loaded = <<"a", "b", "a">>
    /\ jukebox.index_ = 1

RECURSIVE Intent(_)
\* the most recent of play() and stop() in a trace, "none" without one
Intent(trace) ==
    IF trace = <<>> THEN "none"
    ELSE IF trace[Len(trace)] \in {"play", "stop"} THEN trace[Len(trace)]
    ELSE Intent(SubSeq(trace, 1, Len(trace) - 1))

\* a step that is an event of the audio element
AudioEventStep(name) ==
    /\ jukebox # <<>>
    /\ jukebox'.trace = Append(jukebox.trace, name)

\* C35: a 'canplay' event starts playback exactly when the most recent of
\* play() and stop() was play(); with no play() yet or after a stop(), no
\* 'ended' or 'canplay' event starts playback.
C35_PlaybackIntent ==
    [][/\ AudioEventStep("canplay") =>
             /\ jukebox'.playing <=> Intent(jukebox.trace) = "play"
             /\ jukebox'.readyPlays = jukebox.readyPlays +
                    (IF Intent(jukebox.trace) = "play" THEN 1 ELSE 0)
       /\ AudioEventStep("ended") =>
             /\ ~jukebox'.playing
             /\ jukebox'.readyPlays = jukebox.readyPlays]_vars

\* after play() a 'canplay' started playback; then stop() was called and
\* the next 'canplay' started nothing
C35_Witness ==
    /\ jukebox # <<>>
    /\ jukebox.trace = <<"play", "canplay", "stop", "canplay">>
    /\ jukebox.readyPlays = 1
    /\ ~jukebox.playing

\* the loads of a kind under a name, in call order
LoadsOf(kind, name) ==
    SelectSeq(resources.loads, LAMBDA l : l[1] = kind /\ l[2] = name)

\* a map holds, under each name, the resource of the last load of the kind
\* under that name, and nothing under a name that was never loaded
HoldsLatest(map, kind) ==
    /\ DOMAIN map = {name \in ResourceNames : LoadsOf(kind, name) # <<>>}
    /\ \A name \in DOMAIN map :
          map[name] = LoadsOf(kind, name)[Len(LoadsOf(kind, name))][3]

\* the last call was a lookup of a kind: it returned the resource of the
\* last load under the name, or threw when there was none
LookupAnswers(op, kind) ==
    (resources.last # <<>> /\ resources.last[1] = op) =>
        LET name == resources.last[2]
        IN  IF LoadsOf(kind, name) = <<>>
            THEN resources.last[3] = "threw"
            ELSE /\ resources.last[3] = "returned"
                 /\ resources.last[4] =
                        LoadsOf(kind, name)[Len(LoadsOf(kind, name))][3]

\* C36: from the load call on, callback fired or not, each map holds under
\* a name the resource of the last load under it; a lookup returns that
\* resource, and a lookup of a name never loaded throws and leaves the maps
\* as they are.
C36_ResourceLookup ==
    resources # <<>> =>
        /\ HoldsLatest(resources.images_, "image")
        /\ HoldsLatest(resources.spriteSheets_, "spriteSheet")
        /\ HoldsLatest(resources.sounds_, "sound")
        /\ LookupAnswers("getImage", "image")
        /\ LookupAnswers("getSpriteSheet", "spriteSheet")
        /\ LookupAnswers("playSound", "sound")

\* image "ship" was loaded twice and neither callback has fired: getImage
\* returns the second image
C36_Witness ==
    /\ resources # <<>>
    /\ resources.loads = <<<<"image", "ship", 1>>, <<"image", "ship", 2>>>>
    /\ resources.pending = {1, 2}
    /\ resources.last = <<"getImage", "ship", "returned", 2>>

\* C37: stableSort returns a permutation of the receiver that is ordered
\* by compareFn and keeps elements that compare equal in their original
\* order, and leaves the receiver as it was.
C37_StableSort ==
    (sorting # <<>> /\ sorting.done) =>
        LET in == sorting.input
            out == sorting.output
            fn == sorting.compareFn
        IN  /\ sorting.receiver = in
            /\ Len(out) = Len(in)
            /\ \A i, j \in DOMAIN out :
                  i < j => compareFn(fn, out[i], out[j]) <= 0
            /\ \E p \in Orders(Len(in)) :
                  /\ \A i \in DOMAIN out : out[i] = in[p[i]]
                  /\ \A i, j \in DOMAIN out :
                        (i < j /\ compareFn(fn, out[i], out[j]) = 0) =>
                            p[i] < p[j]

\* sorted by key, the two elements of key 1 come first, in the order they
\* had in the receiver, which is not their default order
C37_Witness ==
    /\ sorting # <<>>
    /\ sorting.done
    /\ sorting.compareFn = "byKey"
    /\ sorting.input = <<<<2, "x">>, <<1, "y">>, <<1, "x">>>>
    /\ sorting.output = <<<<1, "y">>, <<1, "x">>, <<2, "x">>>>

====
